---- MODULE Spec2Model ----
(***************************************************************************)
(* Model of yaglw's GPU buffer and vertex-array layer                      *)
(* (src/src/vertex_buffer.rs): GLByteBuffer, GLBuffer<T>, GLArray<T>, and  *)
(* the part of the OpenGL device they drive (buffer data stores, the       *)
(* ARRAY_BUFFER binding, draw calls); and of its resource handles          *)
(* (BufferHandle, ArrayHandle, TextureHandle, Framebuffer, ProgramHandle,  *)
(* ShaderHandle) and context tokens (src/src/gl_context.rs).               *)
(*                                                                         *)
(* usize is modelled as the integers modulo word (a scaled-down machine    *)
(* word, fixed for a run); every addition, subtraction and multiplication  *)
(* the code does on usize wraps, as it does in the build the crate         *)
(* targets.  A cast `x as i64` / `x as GLsizeiptr` is negative when x is   *)
(* in the upper half of the word.                                          *)
(***************************************************************************)
EXTENDS Integers, Sequences, FiniteSets, TLC

\* ------------------------------------------------------------------ bounds
Modulus == 8        \* number of usize values (2^w, scaled down), byte layer
ModulusT == 16      \* number of usize values, typed layer
ModulusA == 12      \* number of usize values, vertex-array layer
NBuf == 2           \* buffer objects the device hands out
NVals == 2          \* distinct payload byte values
MaxElem == 2        \* largest sizeof(T) of a typed buffer
MaxHandles == 2     \* resource handles a program holds at once
NIds == 2           \* names the device hands out per kind of object
NThreads == 2       \* threads of the program
MaxPairs == 2       \* token/context pairs a thread creates
ModulusB == 6       \* number of usize values, byte layer with several buffers
OtherCapacity == 2  \* capacity of the buffers other than the one exercised

BufId == 1 .. NBuf
\* payload bytes are 1 .. NVals; 0 stands for a byte of a data store that
\* was never written
Min(S) == CHOOSE x \in S : \A y \in S : x <= y

\* The bytes a caller hands over: n bytes, the j-th determined by tag
DataOf(tag, n) == [j \in 1 .. n |-> 1 + ((tag + j) % NVals)]

VARIABLES
  word,     \* number of usize values of the target
  mem,      \* device: data store of each buffer id (<<>>: none allocated)
  bound,    \* device: current ARRAY_BUFFER binding, 0 for none
  buf,      \* the GLByteBuffer objects, by gl_id: state, length, capacity
  esize,    \* sizeof(T) of the typed layer
  arr,      \* the GLArray: state, length, mode, buffer, handle
  slots,    \* device: the vertex attribute slots of the array object
  boundArr, \* device: current vertex array binding, 0 for none
  ret,      \* the last call: operation, arguments, result, device calls issued
  pc,       \* "run", or "panicked" once a call terminated fatally
  alloc,    \* device: the names in use, by kind of object
  handles,  \* the resource handles of the program, by slot: state, kind, gl_id
  tokens    \* number of GLContextExistence / GLContext pairs on each thread

\* the state of the resource handles and of the context tokens
hvars == <<alloc, handles, tokens>>
vars == <<word, mem, bound, buf, esize, arr, slots, boundArr, ret, pc, hvars>>

\* ------------------------------------------------------------ usize / casts
Word == 0 .. (word - 1)
WAdd(a, b) == (a + b) % word
WSub(a, b) == (a - b + word) % word
WMul(a, b) == (a * b) % word
\* `x as i64`: the upper half of the word is negative
IsNeg(x) == 2 * x >= word
\* `x as i32` of a u32 x: the value the callee receives
AsI32(x) == IF IsNeg(x) THEN x - word ELSE x

NoBuf == [state |-> "none", length |-> 0, capacity |-> 0]
NoArr == [state |-> "none", length |-> 0, mode |-> "none", buffer |-> 0, handle |-> 0]
\* err is the code the call's poll of the device error flag returned, "none"
\* when the call does not poll
NoRet == [op |-> "none", b |-> 0, idx |-> 0, count |-> 0, data |-> <<>>,
          res |-> "none", calls |-> <<>>, err |-> "none"]
\* the input slots of the shader program the examples build arrays against
Locs == {0, 1}
NoSlot == [enabled |-> FALSE]

\* the kinds of resource handle: BufferHandle, ArrayHandle, TextureHandle,
\* Framebuffer, ProgramHandle, ShaderHandle
Kinds == {"Buffer", "Array", "Texture", "Framebuffer", "Program", "Shader"}
HandleSlots == 1 .. MaxHandles
Threads == 1 .. NThreads
NoHandle == [state |-> "none", kind |-> "none", id |-> 0]
NoAlloc == [k \in Kinds |-> {}]
NoHandles == [s \in HandleSlots |-> NoHandle]
NoTokens == [t \in Threads |-> 0]

\* ------------------------------------------------------------------ device
\* gl::BufferSubData(ARRAY_BUFFER, off, size, data): rejected (GL error, no
\* write) when nothing is bound, an argument is negative or the range leaves
\* the bound buffer's data store
BufferSubDataOk(m, bnd, off, size) ==
  /\ bnd # 0
  /\ ~IsNeg(off)
  /\ ~IsNeg(size)
  /\ off + size <= Len(m[bnd])

BufferSubData(m, bnd, off, data) ==
  IF BufferSubDataOk(m, bnd, off, Len(data))
  THEN [m EXCEPT ![bnd] =
          [j \in 1 .. Len(m[bnd]) |->
             IF j > off /\ j <= off + Len(data) THEN data[j - off] ELSE m[bnd][j]]]
  ELSE m

\* gl::CopyBufferSubData(ARRAY_BUFFER, ARRAY_BUFFER, rd, wr, size): rejected
\* when nothing is bound, an argument is negative, a range leaves the data
\* store, or the two ranges overlap
Overlap(rd, wr, size) == rd < wr + size /\ wr < rd + size

CopyBufferSubDataOk(m, bnd, rd, wr, size) ==
  /\ bnd # 0
  /\ ~IsNeg(rd) /\ ~IsNeg(wr) /\ ~IsNeg(size)
  /\ rd + size <= Len(m[bnd])
  /\ wr + size <= Len(m[bnd])
  /\ ~Overlap(rd, wr, size)

CopyBufferSubData(m, bnd, rd, wr, size) ==
  IF CopyBufferSubDataOk(m, bnd, rd, wr, size)
  THEN [m EXCEPT ![bnd] =
          [j \in 1 .. Len(m[bnd]) |->
             IF j > wr /\ j <= wr + size THEN m[bnd][rd + (j - wr)] ELSE m[bnd][j]]]
  ELSE m

\* ------------------------------------------------------------ GLByteBuffer
\* Results of the operators below: res is "true", "false", "unit" (returned
\* normally, no value) or "panic"; self and m are the object and the device
\* memory as the call leaves them; calls are the device calls issued.
Out(res, self, m, calls) == [res |-> res, self |-> self, m |-> m, calls |-> calls]

update_inner(self, m, bnd, idx, data) ==
  LET count == Len(data) IN
  IF ~(WAdd(idx, count) <= self.capacity)
  THEN Out("panic", self, m, <<>>)
  ELSE Out("unit", self, BufferSubData(m, bnd, idx, data),
           << [fn |-> "BufferSubData", off |-> idx, size |-> count] >>)

push(self, m, bnd, data) ==
  LET count == Len(data) IN
  IF WAdd(self.length, count) > self.capacity
  THEN Out("false", self, m, <<>>)
  ELSE LET u == update_inner(self, m, bnd, self.length, data) IN
       IF u.res = "panic"
       THEN u
       ELSE Out("true", [self EXCEPT !.length = WAdd(self.length, count)],
                u.m, u.calls)

update(self, m, bnd, idx, data) ==
  LET count == Len(data) IN
  IF ~(WAdd(idx, count) <= self.length)
  THEN Out("panic", self, m, <<>>)
  ELSE update_inner(self, m, bnd, idx, data)

\* swap_remove without its first assertion (count <= length)
swap_remove_NoCountAssert(self, m, bnd, i, count) ==
  LET s1 == [self EXCEPT !.length = WSub(self.length, count)] IN
  IF ~(i <= s1.length)
  THEN Out("panic", s1, m, <<>>)
  ELSE IF i < s1.length
       THEN IF ~(i <= WSub(s1.length, count))
            THEN Out("panic", s1, m, <<>>)
            ELSE Out("unit", s1,
                     CopyBufferSubData(m, bnd, s1.length, i, count),
                     << [fn |-> "CopyBufferSubData", rd |-> s1.length,
                         wr |-> i, size |-> count] >>)
       ELSE Out("unit", s1, m, <<>>)

\* swap_remove passing the hole as the copy's source and the tail as its target
swap_remove_SwappedCopy(self, m, bnd, i, count) ==
  IF ~(count <= self.length)
  THEN Out("panic", self, m, <<>>)
  ELSE LET s1 == [self EXCEPT !.length = WSub(self.length, count)] IN
       IF ~(i <= s1.length)
       THEN Out("panic", s1, m, <<>>)
       ELSE IF i < s1.length
            THEN IF ~(i <= WSub(s1.length, count))
                 THEN Out("panic", s1, m, <<>>)
                 ELSE Out("unit", s1,
                          CopyBufferSubData(m, bnd, i, s1.length, count),
                          << [fn |-> "CopyBufferSubData", rd |-> i,
                              wr |-> s1.length, size |-> count] >>)
            ELSE Out("unit", s1, m, <<>>)

\* swap_remove whose overlap assertion is strict (i < length - count)
swap_remove_StrictBound(self, m, bnd, i, count) ==
  IF ~(count <= self.length)
  THEN Out("panic", self, m, <<>>)
  ELSE LET s1 == [self EXCEPT !.length = WSub(self.length, count)] IN
       IF ~(i <= s1.length)
       THEN Out("panic", s1, m, <<>>)
       ELSE IF i < s1.length
            THEN IF ~(i < WSub(s1.length, count))
                 THEN Out("panic", s1, m, <<>>)
                 ELSE Out("unit", s1,
                          CopyBufferSubData(m, bnd, s1.length, i, count),
                          << [fn |-> "CopyBufferSubData", rd |-> s1.length,
                              wr |-> i, size |-> count] >>)
            ELSE Out("unit", s1, m, <<>>)

\* swap_remove that takes the copy branch at i = length as well
swap_remove_CopiesAtTail(self, m, bnd, i, count) ==
  IF ~(count <= self.length)
  THEN Out("panic", self, m, <<>>)
  ELSE LET s1 == [self EXCEPT !.length = WSub(self.length, count)] IN
       IF ~(i <= s1.length)
       THEN Out("panic", s1, m, <<>>)
       ELSE IF i <= s1.length
            THEN IF ~(i <= WSub(s1.length, count))
                 THEN Out("panic", s1, m, <<>>)
                 ELSE Out("unit", s1,
                          CopyBufferSubData(m, bnd, s1.length, i, count),
                          << [fn |-> "CopyBufferSubData", rd |-> s1.length,
                              wr |-> i, size |-> count] >>)
            ELSE Out("unit", s1, m, <<>>)

swap_remove(self, m, bnd, i, count) ==
  IF ~(count <= self.length)
  THEN Out("panic", self, m, <<>>)
  ELSE LET s1 == [self EXCEPT !.length = WSub(self.length, count)] IN
       IF ~(i <= s1.length)
       THEN Out("panic", s1, m, <<>>)
       ELSE IF i < s1.length
            THEN IF ~(i <= WSub(s1.length, count))
                 THEN Out("panic", s1, m, <<>>)
                 ELSE Out("unit", s1,
                          CopyBufferSubData(m, bnd, s1.length, i, count),
                          << [fn |-> "CopyBufferSubData", rd |-> s1.length,
                              wr |-> i, size |-> count] >>)
            ELSE Out("unit", s1, m, <<>>)

\* ------------------------------------------------------------------ actions
Init ==
  /\ word = Modulus
  /\ mem = [b \in BufId |-> <<>>]
  /\ bound = 0
  /\ buf = [b \in BufId |-> NoBuf]
  /\ esize = 1
  /\ arr = NoArr
  /\ slots = [l \in Locs |-> NoSlot]
  /\ boundArr = 0
  /\ ret = NoRet
  /\ pc = "run"
  /\ alloc = NoAlloc
  /\ handles = NoHandles
  /\ tokens = NoTokens

Live(b) == buf[b].state = "live"
\* gl::GenBuffers hands out any name not in use
Fresh(b) == buf[b].state = "none"

\* GLByteBuffer::new(capacity): GenBuffers, BindBuffer, BufferData, get_error.
\* BufferData with a negative size is rejected (no data store, error flag
\* other than OUT_OF_MEMORY: only warned about); otherwise the device either
\* allocates or reports OUT_OF_MEMORY, which panics.
\* asked is the capacity argument of the constructor the caller used (bytes
\* for GLByteBuffer::new, elements for GLBuffer::new), kept in ret.idx
ByteBuffer_new(b, capacity, oom, asked) ==
  /\ pc = "run"
  /\ Fresh(b)
  /\ bound' = b
  /\ IF IsNeg(capacity)
     THEN /\ mem' = mem
          /\ buf' = [buf EXCEPT ![b] = [state |-> "live", length |-> 0, capacity |-> capacity]]
          /\ pc' = "run"
          /\ ret' = [NoRet EXCEPT !.op = "new", !.b = b, !.idx = asked, !.count = capacity, !.res = "unit",
                       !.calls = << [fn |-> "BufferData", size |-> capacity] >>,
                       !.err = "INVALID_VALUE"]
     ELSE IF oom
     THEN /\ mem' = mem
          /\ buf' = buf
          /\ pc' = "panicked"
          /\ ret' = [NoRet EXCEPT !.op = "new", !.b = b, !.idx = asked, !.count = capacity, !.res = "panic",
                       !.calls = << [fn |-> "BufferData", size |-> capacity] >>,
                       !.err = "OUT_OF_MEMORY"]
     ELSE /\ mem' = [mem EXCEPT ![b] = [j \in 1 .. capacity |-> 0]]
          /\ buf' = [buf EXCEPT ![b] = [state |-> "live", length |-> 0, capacity |-> capacity]]
          /\ pc' = "run"
          /\ ret' = [NoRet EXCEPT !.op = "new", !.b = b, !.idx = asked, !.count = capacity, !.res = "unit",
                       !.calls = << [fn |-> "BufferData", size |-> capacity] >>,
                       !.err = "NO_ERROR"]
  /\ UNCHANGED <<hvars, word, esize, arr, slots, boundArr>>

GLByteBuffer_new(b, capacity, oom) == ByteBuffer_new(b, capacity, oom, capacity)

GLByteBuffer_bind(b) ==
  /\ pc = "run"
  /\ Live(b)
  /\ bound' = b
  /\ ret' = [NoRet EXCEPT !.op = "bind", !.b = b, !.res = "unit"]
  /\ UNCHANGED <<hvars, word, mem, buf, esize, arr, slots, boundArr, pc>>

\* Leaves a byte-buffer call's outcome in the state
Apply(op, b, idx, count, data, o) ==
  /\ buf' = [buf EXCEPT ![b] = [state |-> "live", length |-> o.self.length,
                                capacity |-> o.self.capacity]]
  /\ mem' = o.m
  /\ pc' = IF o.res = "panic" THEN "panicked" ELSE "run"
  /\ ret' = [op |-> op, b |-> b, idx |-> idx, count |-> count, data |-> data,
             res |-> o.res, calls |-> o.calls, err |-> "none"]

\* push that makes its own buffer the current array buffer first
GLByteBuffer_push_Rebinding(b, data) ==
  /\ pc = "run"
  /\ Live(b)
  /\ Apply("push", b, 0, Len(data), data, push(buf[b], mem, b, data))
  /\ bound' = b
  /\ UNCHANGED <<hvars, word, esize, arr, slots, boundArr>>

GLByteBuffer_push(b, data) ==
  /\ pc = "run"
  /\ Live(b)
  /\ Apply("push", b, 0, Len(data), data, push(buf[b], mem, bound, data))
  /\ UNCHANGED <<hvars, word, bound, esize, arr, slots, boundArr>>

GLByteBuffer_update(b, idx, data) ==
  /\ pc = "run"
  /\ Live(b)
  /\ Apply("update", b, idx, Len(data), data, update(buf[b], mem, bound, idx, data))
  /\ UNCHANGED <<hvars, word, bound, esize, arr, slots, boundArr>>

GLByteBuffer_swap_remove(b, i, count) ==
  /\ pc = "run"
  /\ Live(b)
  /\ Apply("swap_remove", b, i, count, <<>>, swap_remove(buf[b], mem, bound, i, count))
  /\ UNCHANGED <<hvars, word, bound, esize, arr, slots, boundArr>>

\* The byte buffer whose operations Spec exercises (device names are
\* interchangeable); the remaining ids belong to the other buffers of the
\* program, which the specifications about binding create as well
Targets == {b \in BufId : b = Min(BufId)}
Tags == 0 .. (NVals - 1)

Next ==
  \/ \E b \in Targets, capacity \in Word, oom \in BOOLEAN : GLByteBuffer_new(b, capacity, oom)
  \/ \E b \in Targets : GLByteBuffer_bind(b)
  \/ \E b \in Targets, tag \in Tags, n \in Word : GLByteBuffer_push(b, DataOf(tag, n))
  \/ \E b \in Targets, idx \in Word, tag \in Tags, n \in Word :
        GLByteBuffer_update(b, idx, DataOf(tag, n))
  \/ \E b \in Targets, i \in Word, count \in Word : GLByteBuffer_swap_remove(b, i, count)

Spec == Init /\ [][Next]_vars

\* The byte layer in a program that holds other buffers too: creating or
\* binding any of them makes it the current array buffer
InitBind ==
  /\ word = ModulusB
  /\ mem = [b \in BufId |-> <<>>]
  /\ bound = 0
  /\ buf = [b \in BufId |-> NoBuf]
  /\ esize = 1
  /\ arr = NoArr
  /\ slots = [l \in Locs |-> NoSlot]
  /\ boundArr = 0
  /\ ret = NoRet
  /\ pc = "run"
  /\ alloc = NoAlloc
  /\ handles = NoHandles
  /\ tokens = NoTokens

NextBind ==
  \/ \E b \in Targets, capacity \in Word, oom \in BOOLEAN : GLByteBuffer_new(b, capacity, oom)
  \/ \E b \in BufId \ Targets : GLByteBuffer_new(b, OtherCapacity, FALSE)
  \/ \E b \in BufId : GLByteBuffer_bind(b)
  \/ \E b \in Targets, tag \in Tags, n \in Word : GLByteBuffer_push(b, DataOf(tag, n))
  \/ \E b \in Targets, idx \in Word, tag \in Tags, n \in Word :
        GLByteBuffer_update(b, idx, DataOf(tag, n))
  \/ \E b \in Targets, i \in Word, count \in Word : GLByteBuffer_swap_remove(b, i, count)

SpecBind == InitBind /\ [][NextBind]_vars

\* ---------------------------------------------------------------- GLBuffer<T>
\* The typed layer: sizeof(T) = k; a slice of n elements is k*n bytes (a slice
\* is an object in memory, so its byte size never wraps); indices and counts
\* the caller passes are any usize, and their products with k wrap.
GLBuffer_push(self, m, bnd, k, tag, n) ==
  push(self, m, bnd, DataOf(tag, WMul(k, n)))

GLBuffer_update(self, m, bnd, k, idx, tag, n) ==
  update(self, m, bnd, WMul(k, idx), DataOf(tag, WMul(k, n)))

GLBuffer_swap_remove(self, m, bnd, k, idx, count) ==
  swap_remove(self, m, bnd, WMul(k, idx), WMul(k, count))

\* slices a caller can hold: n elements of k bytes, at most isize::MAX bytes
SliceLens(k) == {n \in Word : ~IsNeg(n) /\ 2 * (k * n) < word}

\* sizeof(T) of the typed buffers exercised: the multi-byte element types
\* (with sizeof(T) = 1 the typed layer is the byte layer)
ElemSizes == {k \in 1 .. MaxElem : k > 1}

InitTyped ==
  /\ word = ModulusT
  /\ mem = [b \in BufId |-> <<>>]
  /\ bound = 0
  /\ buf = [b \in BufId |-> NoBuf]
  /\ esize \in ElemSizes
  /\ arr = NoArr
  /\ slots = [l \in Locs |-> NoSlot]
  /\ boundArr = 0
  /\ ret = NoRet
  /\ pc = "run"
  /\ alloc = NoAlloc
  /\ handles = NoHandles
  /\ tokens = NoTokens

\* GLBuffer::new(capacity): a byte buffer of capacity * sizeof(T) bytes
Typed_new(b, capacity, oom) ==
  /\ ByteBuffer_new(b, WMul(capacity, esize), oom, capacity)

Typed_bind(b) ==
  /\ GLByteBuffer_bind(b)

Typed_push(b, tag, n) ==
  /\ pc = "run"
  /\ Live(b)
  /\ Apply("push", b, 0, n, DataOf(tag, WMul(esize, n)),
           GLBuffer_push(buf[b], mem, bound, esize, tag, n))
  /\ UNCHANGED <<hvars, word, bound, esize, arr, slots, boundArr>>

Typed_update(b, idx, tag, n) ==
  /\ pc = "run"
  /\ Live(b)
  /\ Apply("update", b, idx, n, DataOf(tag, WMul(esize, n)),
           GLBuffer_update(buf[b], mem, bound, esize, idx, tag, n))
  /\ UNCHANGED <<hvars, word, bound, esize, arr, slots, boundArr>>

Typed_swap_remove(b, idx, count) ==
  /\ pc = "run"
  /\ Live(b)
  /\ Apply("swap_remove", b, idx, count, <<>>,
           GLBuffer_swap_remove(buf[b], mem, bound, esize, idx, count))
  /\ UNCHANGED <<hvars, word, bound, esize, arr, slots, boundArr>>

\* The other buffers of the program are created empty: all that matters of
\* them here is that creating or binding one makes it the bound buffer
NextTyped ==
  \/ \E b \in Targets, capacity \in Word, oom \in BOOLEAN : Typed_new(b, capacity, oom)
  \/ \E b \in BufId \ Targets : Typed_new(b, 0, FALSE)
  \/ \E b \in BufId : Typed_bind(b)
  \/ \E b \in Targets, tag \in Tags, n \in SliceLens(esize) : Typed_push(b, tag, n)
  \/ \E b \in Targets, idx \in Word, tag \in Tags, n \in SliceLens(esize) :
        Typed_update(b, idx, tag, n)
  \/ \E b \in Targets, idx \in Word, count \in Word : Typed_swap_remove(b, idx, count)

SpecTyped == InitTyped /\ [][NextTyped]_vars

\* ----------------------------------------------------------------- GLArray<T>
DrawModes == {"Lines", "Triangles", "Points"}
to_enum(mode) ==
  CASE mode = "Lines" -> "LINES"
    [] mode = "Triangles" -> "TRIANGLES"
    [] mode = "Points" -> "POINTS"

GLTypes == {"Float", "UInt", "Int"}
\* mem::size_of::<GLfloat>(), ::<GLuint>(), ::<GLint>()
SizeOfGLfloat == 4
SizeOfGLuint == 4
SizeOfGLint == 4
GLType_size(unit) ==
  CASE unit = "Float" -> SizeOfGLfloat
    [] unit = "UInt" -> SizeOfGLuint
    [] unit = "Int" -> SizeOfGLint
GLType_gl_enum(unit) ==
  CASE unit = "Float" -> "FLOAT"
    [] unit = "UInt" -> "UNSIGNED_INT"
    [] unit = "Int" -> "INT"
GLType_is_integral(unit) == unit # "Float"

\* u32 arithmetic of attrib_span, on a target whose usize is as wide as u32
U32Add(a, b) == (a + b) % word
U32Mul(a, b) == (a * b) % word

\* gl::GetAttribLocation against the program: its two inputs, -1 for any
\* other name
glGetAttribLocation(name) ==
  CASE name = "position" -> 0
    [] name = "color" -> 1
    [] OTHER -> -1

AttribWidth(attrib) == U32Mul(attrib.size, GLType_size(attrib.unit))

\* attrib_span over the first n attributes; the running offset before
\* attribute n+1
RECURSIVE SpanUpTo(_, _)
SpanUpTo(attribs, n) ==
  IF n = 0 THEN 0 ELSE U32Add(SpanUpTo(attribs, n - 1), AttribWidth(attribs[n]))

RECURSIVE OffsetUpTo(_, _)
OffsetUpTo(attribs, n) ==
  IF n = 0 THEN 0 ELSE WAdd(OffsetUpTo(attribs, n - 1), AttribWidth(attribs[n]))

\* gl::EnableVertexAttribArray + gl::VertexAttrib(I)Pointer for attribute n:
\* the slot is enabled; the pointer call is rejected (slot layout kept) for a
\* component count outside 1..4 or a negative stride; nothing happens with
\* no array object bound.  The slot records the buffer bound at the call.
SlotAfter(sl, vao, bnd, attribs, n) ==
  LET a == attribs[n]
      loc == glGetAttribLocation(a.name)
      span == SpanUpTo(attribs, Len(attribs))
  IN
  IF vao = 0 THEN sl
  ELSE IF a.size \in 1 .. 4 /\ ~IsNeg(span)
  THEN [sl EXCEPT ![loc] =
          [enabled |-> TRUE, size |-> a.size, type |-> GLType_gl_enum(a.unit),
           integral |-> GLType_is_integral(a.unit), normalized |-> FALSE,
           stride |-> span, offset |-> OffsetUpTo(attribs, n - 1), buffer |-> bnd]]
  ELSE [sl EXCEPT ![loc] = [sl[loc] EXCEPT !.enabled = TRUE]]

RECURSIVE SlotsUpTo(_, _, _, _, _)
SlotsUpTo(sl, vao, bnd, attribs, n) ==
  IF n = 0 THEN sl
  ELSE SlotAfter(SlotsUpTo(sl, vao, bnd, attribs, n - 1), vao, bnd, attribs, n)

\* the pointer call for attribute n: the integer path has no normalization
\* argument, the float path passes gl::FALSE
AttribCall(attribs, n) ==
  IF GLType_is_integral(attribs[n].unit)
  THEN [fn |-> "VertexAttribIPointer",
        loc |-> glGetAttribLocation(attribs[n].name),
        size |-> AsI32(attribs[n].size), type |-> GLType_gl_enum(attribs[n].unit),
        stride |-> AsI32(SpanUpTo(attribs, Len(attribs))),
        offset |-> OffsetUpTo(attribs, n - 1)]
  ELSE [fn |-> "VertexAttribPointer",
        loc |-> glGetAttribLocation(attribs[n].name),
        size |-> AsI32(attribs[n].size), type |-> GLType_gl_enum(attribs[n].unit),
        normalized |-> FALSE,
        stride |-> AsI32(SpanUpTo(attribs, Len(attribs))),
        offset |-> OffsetUpTo(attribs, n - 1)]

\* The device calls of GLArray::new up to and including attribute n:
\* BindVertexArray, then per attribute EnableVertexAttribArray and the pointer
\* call
RECURSIVE CallsUpTo(_, _, _)
CallsUpTo(id, attribs, n) ==
  IF n = 0 THEN << [fn |-> "BindVertexArray", id |-> id] >>
  ELSE CallsUpTo(id, attribs, n - 1) \o
       << [fn |-> "EnableVertexAttribArray",
           loc |-> glGetAttribLocation(attribs[n].name)],
          AttribCall(attribs, n) >>

\* The error the calls for attribute n raise: INVALID_OPERATION with no array
\* object bound, INVALID_VALUE for a rejected pointer call
AttribError(vao, attribs, n) ==
  IF vao = 0 THEN "INVALID_OPERATION"
  ELSE IF attribs[n].size \in 1 .. 4 /\ ~IsNeg(SpanUpTo(attribs, Len(attribs)))
  THEN "NO_ERROR"
  ELSE "INVALID_VALUE"

\* The device error flag after the calls for the first n attributes (the flag
\* keeps the first error raised; it is taken to be clear when GLArray::new
\* starts)
RECURSIVE ErrorUpTo(_, _, _)
ErrorUpTo(vao, attribs, n) ==
  IF n = 0 THEN "NO_ERROR"
  ELSE IF ErrorUpTo(vao, attribs, n - 1) # "NO_ERROR"
  THEN ErrorUpTo(vao, attribs, n - 1)
  ELSE AttribError(vao, attribs, n)

\* Index of the first attribute whose name the program does not have, or
\* Len(attribs) + 1
FirstMissing(attribs) ==
  Min({i \in 1 .. Len(attribs) : glGetAttribLocation(attribs[i].name) = -1}
      \cup {Len(attribs) + 1})

\* GLArray::new: res is "unit" (an array is returned) or "panic"; done is the
\* number of attributes enabled and configured before it returned or panicked
\* GLArray::new resolving every name before it enables any attribute
GLArray_new_ResolveFirst(b, self, k, attribs, mode, id) ==
  LET miss == FirstMissing(attribs)
      span == SpanUpTo(attribs, Len(attribs))
      err == ErrorUpTo(id, attribs, Len(attribs))
  IN
  IF miss <= Len(attribs)
  THEN [res |-> "panic", why |-> "attribute", done |-> 0, a |-> NoArr, err |-> "none"]
  ELSE IF span # k
  THEN [res |-> "panic", why |-> "span", done |-> Len(attribs), a |-> NoArr, err |-> err]
  ELSE IF k = 0
  THEN [res |-> "panic", why |-> "divide", done |-> Len(attribs), a |-> NoArr, err |-> err]
  ELSE [res |-> "unit", why |-> "none", done |-> Len(attribs), err |-> err,
        a |-> [state |-> "live", length |-> self.length \div k,
               mode |-> to_enum(mode), buffer |-> b, handle |-> id]]

\* GLArray::new starting every array at length 0
GLArray_new_EmptyLength(b, self, k, attribs, mode, id) ==
  LET miss == FirstMissing(attribs)
      done == miss - 1
      span == SpanUpTo(attribs, Len(attribs))
      err == ErrorUpTo(id, attribs, Len(attribs))
  IN
  IF miss <= Len(attribs)
  THEN [res |-> "panic", why |-> "attribute", done |-> done, a |-> NoArr, err |-> "none"]
  ELSE IF span # k
  THEN [res |-> "panic", why |-> "span", done |-> done, a |-> NoArr, err |-> err]
  ELSE IF k = 0
  THEN [res |-> "panic", why |-> "divide", done |-> done, a |-> NoArr, err |-> err]
  ELSE [res |-> "unit", why |-> "none", done |-> done, err |-> err,
        a |-> [state |-> "live", length |-> 0,
               mode |-> to_enum(mode), buffer |-> b, handle |-> id]]

GLArray_new(b, self, k, attribs, mode, id) ==
  LET miss == FirstMissing(attribs)
      done == miss - 1
      span == SpanUpTo(attribs, Len(attribs))
      err == ErrorUpTo(id, attribs, Len(attribs))
  IN
  IF miss <= Len(attribs)
  THEN [res |-> "panic", why |-> "attribute", done |-> done, a |-> NoArr, err |-> "none"]
  ELSE IF span # k
  THEN [res |-> "panic", why |-> "span", done |-> done, a |-> NoArr, err |-> err]
  ELSE IF k = 0
  THEN [res |-> "panic", why |-> "divide", done |-> done, a |-> NoArr, err |-> err]
  ELSE [res |-> "unit", why |-> "none", done |-> done, err |-> err,
        a |-> [state |-> "live", length |-> self.length \div k,
               mode |-> to_enum(mode), buffer |-> b, handle |-> id]]

\* Results of the array operators: as Out, with the array object a
AOut(res, a, self, m, calls) ==
  [res |-> res, a |-> a, self |-> self, m |-> m, calls |-> calls]

GLArray_push(a, self, m, bnd, k, tag, n) ==
  LET a1 == [a EXCEPT !.length = WAdd(a.length, n)]
      r == GLBuffer_push(self, m, bnd, k, tag, n)
  IN AOut(r.res, a1, r.self, r.m, r.calls)

GLArray_swap_remove(a, self, m, bnd, k, idx, count) ==
  LET r == GLBuffer_swap_remove(self, m, bnd, k, idx, count) IN
  IF r.res = "panic"
  THEN AOut("panic", a, r.self, r.m, r.calls)
  ELSE AOut("unit", [a EXCEPT !.length = WSub(a.length, count)], r.self, r.m, r.calls)

GLArray_draw_slice(a, self, m, start, len) ==
  IF ~(WAdd(start, len) <= a.length)
  THEN AOut("panic", a, self, m, <<>>)
  ELSE AOut("unit", a, self, m,
            << [fn |-> "DrawArrays", mode |-> a.mode, first |-> start, count |-> len] >>)

GLArray_draw(a, self, m) == GLArray_draw_slice(a, self, m, 0, a.length)

\* sizeof(T) of the vertex types: zero-sized, one GL scalar, two GL scalars
VertexSizes == {0, SizeOfGLfloat, 2 * SizeOfGLfloat}

InitArray ==
  /\ word = ModulusA
  /\ mem = [b \in BufId |-> <<>>]
  /\ bound = 0
  /\ buf = [b \in BufId |-> NoBuf]
  /\ esize \in VertexSizes
  /\ arr = NoArr
  /\ slots = [l \in Locs |-> NoSlot]
  /\ boundArr = 0
  /\ ret = NoRet
  /\ pc = "run"
  /\ alloc = NoAlloc
  /\ handles = NoHandles
  /\ tokens = NoTokens

\* The typed buffer exists and has not been moved into an array
BufferFree(b) == Live(b) /\ arr.state = "none"
ArrayOn(b) == arr.state = "live" /\ arr.buffer = b

Array_buffer_new(b, capacity, oom) ==
  /\ arr.state = "none"
  /\ Typed_new(b, capacity, oom)

Array_buffer_push(b, tag, n) ==
  /\ arr.state = "none"
  /\ Typed_push(b, tag, n)

\* GLArray::new(gl, gl_context, shader_program, attribs, mode, buffer); id is
\* the name gl::GenVertexArrays leaves in gl_id
Array_new(b, attribs, mode, id) ==
  /\ pc = "run"
  /\ BufferFree(b)
  /\ LET o == GLArray_new(b, buf[b], esize, attribs, mode, id) IN
     /\ boundArr' = id
     /\ slots' = SlotsUpTo(slots, id, bound, attribs, o.done)
     /\ arr' = IF o.res = "unit" THEN o.a ELSE arr
     /\ pc' = IF o.res = "panic" THEN "panicked" ELSE "run"
     /\ ret' = [NoRet EXCEPT !.op = "GLArray::new", !.b = b, !.res = o.res,
                  !.data = attribs, !.count = o.done, !.err = o.err,
                  !.calls = CallsUpTo(id, attribs, o.done)]
  /\ UNCHANGED <<hvars, word, mem, bound, buf, esize>>

Array_bind(b) ==
  /\ pc = "run"
  /\ ArrayOn(b)
  /\ boundArr' = arr.handle
  /\ bound' = b
  /\ ret' = [NoRet EXCEPT !.op = "bind", !.b = b, !.res = "unit"]
  /\ UNCHANGED <<hvars, word, mem, buf, esize, arr, slots, pc>>

\* Leaves an array call's outcome in the state
ApplyArray(op, b, idx, count, data, o) ==
  /\ Apply(op, b, idx, count, data, o)
  /\ arr' = o.a

Array_push(b, tag, n) ==
  /\ pc = "run"
  /\ ArrayOn(b)
  /\ ApplyArray("push", b, 0, n, DataOf(tag, WMul(esize, n)),
                GLArray_push(arr, buf[b], mem, bound, esize, tag, n))
  /\ UNCHANGED <<hvars, word, bound, esize, slots, boundArr>>

Array_swap_remove(b, idx, count) ==
  /\ pc = "run"
  /\ ArrayOn(b)
  /\ ApplyArray("swap_remove", b, idx, count, <<>>,
                GLArray_swap_remove(arr, buf[b], mem, bound, esize, idx, count))
  /\ UNCHANGED <<hvars, word, bound, esize, slots, boundArr>>

Array_draw(b) ==
  /\ pc = "run"
  /\ ArrayOn(b)
  /\ ApplyArray("draw", b, 0, arr.length, <<>>, GLArray_draw(arr, buf[b], mem))
  /\ UNCHANGED <<hvars, word, bound, esize, slots, boundArr>>

Array_draw_slice(b, start, len) ==
  /\ pc = "run"
  /\ ArrayOn(b)
  /\ ApplyArray("draw_slice", b, start, len, <<>>,
                GLArray_draw_slice(arr, buf[b], mem, start, len))
  /\ UNCHANGED <<hvars, word, bound, esize, slots, boundArr>>

\* Attribute descriptors
Attrib(name, size, unit) == [name |-> name, size |-> size, unit |-> unit]
\* the attribute lists the arrays of SpecArray are built from
\* ("normal" is not an input of the program)
ArrayAttribLists ==
  { <<>>,
    << Attrib("position", 1, "Float") >>,
    << Attrib("position", 1, "Float"), Attrib("color", 1, "UInt") >>,
    << Attrib("position", 2, "Float"), Attrib("color", 1, "Int") >>,
    << Attrib("position", 1, "Float"), Attrib("normal", 1, "Float") >>,
    << Attrib("normal", 1, "Float"), Attrib("position", 1, "Float") >> }
ArrayModes == {"Triangles", "Points"}
ArrayIds == {1}

NextArray ==
  \/ \E b \in Targets, capacity \in Word, oom \in BOOLEAN : Array_buffer_new(b, capacity, oom)
  \/ \E b \in Targets, tag \in Tags, n \in SliceLens(esize) : Array_buffer_push(b, tag, n)
  \/ \E b \in Targets, attribs \in ArrayAttribLists, mode \in ArrayModes, id \in ArrayIds :
        Array_new(b, attribs, mode, id)
  \/ \E b \in Targets : Array_bind(b)
  \/ \E b \in Targets, tag \in Tags, n \in SliceLens(esize) : Array_push(b, tag, n)
  \/ \E b \in Targets, idx \in Word, count \in Word : Array_swap_remove(b, idx, count)
  \/ \E b \in Targets : Array_draw(b)
  \/ \E b \in Targets, start \in Word, len \in Word : Array_draw_slice(b, start, len)

SpecArray == InitArray /\ [][NextArray]_vars

\* The vertex-array layer in a program that creates another buffer between
\* GLBuffer::new and GLArray::new: GLByteBuffer::new binds what it creates
NextArrayBind ==
  \/ \E b \in Targets, capacity \in Word, oom \in BOOLEAN : Array_buffer_new(b, capacity, oom)
  \/ \E b \in BufId \ Targets : Array_buffer_new(b, 0, FALSE)
  \/ \E b \in Targets, tag \in Tags, n \in SliceLens(esize) : Array_buffer_push(b, tag, n)
  \/ \E b \in Targets, attribs \in ArrayAttribLists, mode \in ArrayModes, id \in ArrayIds :
        Array_new(b, attribs, mode, id)
  \/ \E b \in Targets : Array_bind(b)
  \/ \E b \in Targets, tag \in Tags, n \in SliceLens(esize) : Array_push(b, tag, n)
  \/ \E b \in Targets : Array_draw(b)

SpecArrayBind == InitArray /\ [][NextArrayBind]_vars

\* ------------------------------------------------------------ resource handles
\* The handle constructors that assert gl_id != 0 after the device call:
\* BufferHandle::new, ProgramHandle::new, ShaderHandle::compile_from.
\* ArrayHandle::new, TextureHandle::new and Framebuffer::new build the handle
\* from whatever the device call left in gl_id.
AssertsNonZero == {"Buffer", "Program", "Shader"}

\* What gl::Gen* / gl::Create* can leave in gl_id: a name not in use, or 0
\* when the device could not provide one
GenIds(kind) == {0} \cup ((1 .. NIds) \ alloc[kind])

DeleteFn(kind) ==
  CASE kind = "Buffer" -> "DeleteBuffers"
    [] kind = "Array" -> "DeleteVertexArrays"
    [] kind = "Texture" -> "DeleteTextures"
    [] kind = "Framebuffer" -> "DeleteFramebuffers"
    [] kind = "Program" -> "DeleteProgram"
    [] kind = "Shader" -> "DeleteShader"

\* GLContext::new on thread t: hands out a token/context pair, unchecked
GLContext_new(t) ==
  /\ pc = "run"
  /\ tokens[t] < MaxPairs
  /\ tokens' = [tokens EXCEPT ![t] = @ + 1]
  /\ ret' = [NoRet EXCEPT !.op = "GLContext::new", !.b = t, !.res = "unit"]
  /\ UNCHANGED <<word, mem, bound, buf, esize, arr, slots, boundArr, pc, alloc, handles>>

\* A handle constructor of the given kind, into slot s of the program; id is
\* what the device call returns; compiled is the COMPILE_STATUS of a shader
\* stage (ShaderHandle::compile_from panics before it builds the handle when
\* the stage does not compile)
Handle_new(s, kind, id, compiled) ==
  /\ pc = "run"
  /\ \E t \in Threads : tokens[t] > 0
  /\ handles[s].state = "none"
  /\ id \in GenIds(kind)
  /\ alloc' = IF id = 0 THEN alloc ELSE [alloc EXCEPT ![kind] = @ \cup {id}]
  /\ IF (kind \in AssertsNonZero /\ id = 0) \/ (kind = "Shader" /\ ~compiled)
     THEN /\ handles' = handles
          /\ pc' = "panicked"
          /\ ret' = [NoRet EXCEPT !.op = "Handle::new", !.b = s, !.idx = id,
                       !.data = <<kind>>, !.res = "panic"]
     ELSE /\ handles' = [handles EXCEPT ![s] = [state |-> "live", kind |-> kind, id |-> id]]
          /\ pc' = "run"
          /\ ret' = [NoRet EXCEPT !.op = "Handle::new", !.b = s, !.idx = id,
                       !.data = <<kind>>, !.res = "unit"]
  /\ UNCHANGED <<word, mem, bound, buf, esize, arr, slots, boundArr, tokens>>

\* Drop of the handle in slot s: the matching delete call with its gl_id.
\* Handles are dropped when their owner goes out of scope, and by unwinding
\* after a panic.
Handle_drop(s) ==
  /\ handles[s].state = "live"
  /\ handles' = [handles EXCEPT ![s] = NoHandle]
  /\ alloc' = [alloc EXCEPT ![handles[s].kind] = @ \ {handles[s].id}]
  /\ ret' = [NoRet EXCEPT !.op = "drop", !.b = s, !.idx = handles[s].id,
               !.data = <<handles[s].kind>>, !.res = "unit",
               !.calls = << [fn |-> DeleteFn(handles[s].kind), id |-> handles[s].id] >>]
  /\ UNCHANGED <<word, mem, bound, buf, esize, arr, slots, boundArr, pc, tokens>>

\* A fatal termination while handles are held (the later steps of an owner's
\* constructor, or any assertion of the library): unwinding drops them
Owner_panic ==
  /\ pc = "run"
  /\ \E s \in HandleSlots : handles[s].state = "live"
  /\ pc' = "panicked"
  /\ ret' = [NoRet EXCEPT !.op = "panic", !.res = "panic"]
  /\ UNCHANGED <<word, mem, bound, buf, esize, arr, slots, boundArr, hvars>>

NextHandles ==
  \/ \E t \in Threads : GLContext_new(t)
  \/ \E s \in HandleSlots, kind \in Kinds, id \in 0 .. NIds, compiled \in BOOLEAN :
        Handle_new(s, kind, id, compiled)
  \/ \E s \in HandleSlots : Handle_drop(s)
  \/ Owner_panic

SpecHandles == Init /\ [][NextHandles]_vars

\* Every handle is a value owned by a scope: it is dropped when the scope ends
\* or unwinds, so a live handle's Drop is not postponed forever
SpecHandlesFair == SpecHandles /\ \A s \in HandleSlots : WF_vars(Handle_drop(s))

\* ------------------------------------------------------------------ claims
\* C1: after every byte-buffer call that returns normally, 0 <= length <= capacity
CapacityInvariant ==
  pc = "run" => \A b \in BufId : Live(b) => 0 <= buf[b].length /\ buf[b].length <= buf[b].capacity

\* a swap_remove returned normally and left a partly filled buffer
CapacityWitness ==
  /\ pc = "run" /\ ret.op = "swap_remove" /\ ret.res = "unit" /\ ret.count > 0
  /\ buf[ret.b].length > 0 /\ buf[ret.b].length < buf[ret.b].capacity

\* C2: push returns false exactly when length + len(data) > capacity, and a
\* push that returns false changes nothing, issues no upload and is not fatal
PushFalseIffOverCapacity ==
  [][ret'.op = "push" =>
       LET b == ret'.b IN
       /\ (ret'.res = "false") <=> (buf[b].length + ret'.count > buf[b].capacity)
       /\ ret'.res = "false" =>
            /\ buf' = buf /\ mem' = mem /\ bound' = bound
            /\ ret'.calls = <<>> /\ pc' = "run"]_vars

\* C5: a swap_remove that issues a device copy never issues one whose
\* destination [i, i+count) overlaps its source [length_after, length_after+count)
NoOverlappingCopy ==
  ret.op = "swap_remove" =>
    \A c \in 1 .. Len(ret.calls) :
      ret.calls[c].fn = "CopyBufferSubData" =>
        ~Overlap(ret.calls[c].rd, ret.calls[c].wr, ret.calls[c].size)

\* The step wrote data to bytes [off, off + len(data)) of the bound buffer's
\* data store and changed no other device byte
WrittenExactly(off, data) ==
  /\ Len(data) > 0 => bound # 0 /\ off + Len(data) <= Len(mem[bound])
  /\ \A c \in BufId :
       /\ Len(mem'[c]) = Len(mem[c])
       /\ \A j \in 1 .. Len(mem[c]) :
            mem'[c][j] = IF c = bound /\ j > off /\ j <= off + Len(data)
                         THEN data[j - off] ELSE mem[c][j]

\* C6: a push that returns true writes data at [old_length, old_length+len(data))
\* of the bound buffer, changes no other device byte and adds len(data) to length
PushWritesTail ==
  [][ret'.op = "push" /\ ret'.res = "true" =>
       LET b == ret'.b
           old == buf[b].length
           data == ret'.data
       IN
       /\ WrittenExactly(old, data)
       /\ buf'[b].length = old + Len(data)]_vars

\* C7: update(index, data) with index + len(data) > length terminates fatally
\* and issues no device write
UpdateOutOfRangeFatal ==
  ret.op = "update" /\ ret.idx + ret.count > buf[ret.b].length =>
    ret.res = "panic" /\ ret.calls = <<>>

\* The j-th element (0-based) of a data store of k-byte elements
ElemAt(store, k, j) == SubSeq(store, j * k + 1, j * k + k)

\* C4: on a bound typed buffer whose data store holds elements e0..e(n-1),
\* swap_remove(i, 1) with i <= n-1 returns, leaves length n-1, puts e(n-1) at
\* position i when i < n-1 and changes no other element below the new length
SwapRemoveOne ==
  [][ret'.op = "swap_remove" /\ ret'.count = 1 =>
       LET b == ret'.b
           k == esize
           n == buf[b].length \div k
           i == ret'.idx
       IN
       (/\ bound = b
        /\ buf[b].length = n * k /\ n >= 1
        /\ buf[b].length <= Len(mem[b])
        /\ i <= n - 1)
       =>
       (/\ ret'.res = "unit"
        /\ buf'[b].length = (n - 1) * k
        /\ buf'[b].capacity = buf[b].capacity
        /\ \A j \in 0 .. (n - 2) :
             ElemAt(mem'[b], k, j) = IF j = i THEN ElemAt(mem[b], k, n - 1)
                                              ELSE ElemAt(mem[b], k, j))]_vars

\* swap_remove(i, 1) with i < n-1 moved the last of at least three elements
SwapRemoveOneWitness ==
  /\ ret.op = "swap_remove" /\ ret.count = 1 /\ ret.res = "unit"
  /\ bound = ret.b
  /\ Len(ret.calls) = 1
  /\ buf[ret.b].length >= 2 * esize
  /\ buf[ret.b].length <= Len(mem[ret.b])
  /\ ret.idx = 0
  /\ ElemAt(mem[ret.b], esize, 0) # ElemAt(mem[ret.b], esize, 1)

\* C8: an accepted typed update(idx, vs) writes the bytes of vs to
\* [idx*k, idx*k + len(vs)*k) and changes no other device byte, nor length
\* or capacity
TypedUpdateExactRange ==
  [][ret'.op = "update" /\ ret'.res = "unit" =>
       /\ buf' = buf
       /\ Len(ret'.data) = esize * ret'.count
       /\ WrittenExactly(ret'.idx * esize, ret'.data)]_vars

\* C3: whenever a vertex-array operation has returned, the array's length is
\* byte_buffer.length / sizeof(T); a push that returns false leaves it as it was
ArrayLengthTracksBuffer ==
  pc = "run" /\ arr.state = "live" =>
    arr.length = buf[arr.buffer].length \div esize

\* C9: draw_slice(start, len) terminates fatally and draws nothing when
\* start + len > length, and otherwise issues exactly one draw call over
\* [start, start+len) with the array's mode
DrawSliceChecked ==
  ret.op = "draw_slice" =>
    IF ret.idx + ret.count > arr.length
    THEN ret.res = "panic" /\ ret.calls = <<>>
    ELSE /\ ret.res = "unit"
         /\ ret.calls = << [fn |-> "DrawArrays", mode |-> arr.mode,
                            first |-> ret.idx, count |-> ret.count] >>

\* The sum over the attributes of component_count * size_of(component_type)
RECURSIVE AttribSum(_, _)
AttribSum(attribs, n) ==
  IF n = 0 THEN 0
  ELSE AttribSum(attribs, n - 1) + attribs[n].size * GLType_size(attribs[n].unit)

\* C10: when every attribute name resolves, GLArray::new terminates fatally
\* exactly when the attributes' byte widths do not sum to sizeof(T), and
\* returns an array otherwise
TilingIffConstructed ==
  ret.op = "GLArray::new" /\ FirstMissing(ret.data) > Len(ret.data) =>
    /\ (ret.res = "panic") <=> (AttribSum(ret.data, Len(ret.data)) # esize)
    /\ ret.res # "panic" => arr.state = "live"

\* C11: every handle constructor terminates fatally when the device call
\* returns id 0, and no handle holding id 0 is returned
NoZeroHandle ==
  /\ \A s \in HandleSlots : handles[s].state = "live" => handles[s].id # 0
  /\ ret.op = "Handle::new" /\ ret.idx = 0 => ret.res = "panic"

\* C12: the device delete primitive is only ever called for an id that is in
\* use (generated, non-zero, and not deleted since): never twice for one id,
\* never for a handle that did not get a valid id
DeleteOnlyLiveId ==
  [][ret'.op = "drop" =>
       \A c \in 1 .. Len(ret'.calls) :
         /\ ret'.calls[c].id # 0
         /\ ret'.calls[c].id \in alloc[handles[ret'.b].kind]]_vars

\* C13: a constructor that polls the device error flag and gets a code other
\* than 'no error' terminates fatally and returns no object
PolledErrorIsFatal ==
  ret.op \in {"new", "GLArray::new"} /\ ret.err \notin {"none", "NO_ERROR"} =>
    ret.res = "panic"

\* C14: at most one capability token / context pair exists per thread at any
\* time
OnePairPerThread ==
  \A t \in Threads : tokens[t] <= 1

\* The device memory after the device calls of the step are applied to the
\* buffer that was current when the step began
AppliedToCurrent(calls, data) ==
  IF calls = <<>> THEN mem
  ELSE IF calls[1].fn = "BufferSubData"
  THEN BufferSubData(mem, bound, calls[1].off, data)
  ELSE CopyBufferSubData(mem, bound, calls[1].rd, calls[1].wr, calls[1].size)

\* C15: push, update and swap_remove leave the current array buffer as it
\* is, and their device writes and copies land in the buffer that is current,
\* whichever buffer's length they update
BindingUntouched ==
  [][ret'.op \in {"push", "update", "swap_remove"} =>
       /\ bound' = bound
       /\ Len(ret'.calls) <= 1
       /\ mem' = AppliedToCurrent(ret'.calls, ret'.data)
       /\ \A c \in BufId : c # bound => mem'[c] = mem[c]]_vars

\* a push on one buffer returned true and its bytes went to the other buffer,
\* which was current
BindingWitness ==
  /\ ret.op = "push" /\ ret.res = "true" /\ Len(ret.data) > 0
  /\ bound # 0 /\ bound # ret.b
  /\ buf[ret.b].length = Len(ret.data)
  /\ SubSeq(mem[bound], 1, Len(ret.data)) = ret.data
  /\ \A j \in 1 .. Len(mem[ret.b]) : mem[ret.b][j] = 0

\* C16: when a name in the list has no input in the program, GLArray::new
\* terminates fatally at that attribute: the attributes before it, and no
\* others, have been enabled and configured, in order, and no array is returned
MissingAttributeFatal ==
  ret.op = "GLArray::new" /\ FirstMissing(ret.data) <= Len(ret.data) =>
    LET miss == FirstMissing(ret.data)
        loc(i) == glGetAttribLocation(ret.data[i].name)
    IN
    /\ ret.res = "panic"
    /\ arr.state = "none"
    /\ Len(ret.calls) = 1 + 2 * (miss - 1)
    /\ \A i \in 1 .. (miss - 1) :
         /\ ret.calls[2 * i] = [fn |-> "EnableVertexAttribArray", loc |-> loc(i)]
         /\ ret.calls[2 * i + 1].fn \in {"VertexAttribPointer", "VertexAttribIPointer"}
         /\ ret.calls[2 * i + 1].loc = loc(i)
         /\ ret.calls[2 * i + 1].size = ret.data[i].size
         /\ slots[loc(i)].enabled
    /\ \A l \in Locs :
         (\A i \in 1 .. (miss - 1) : loc(i) # l) => ~slots[l].enabled

\* construction stopped at a second attribute that the program does not
\* have, after the first was enabled
MissingAttributeWitness ==
  /\ ret.op = "GLArray::new" /\ ret.res = "panic"
  /\ FirstMissing(ret.data) = 2 /\ Len(ret.data) >= 2
  /\ slots[glGetAttribLocation(ret.data[1].name)].enabled

\* C17: swap_remove(index, count) with count <= length and index equal to
\* length_after - count (length_after = length - count) returns normally,
\* leaves length = length_after and copies [length_after, length_after+count)
\* onto [index, index+count): the copy call carries exactly these ranges, and
\* the bytes are moved when the buffer is current and holds them
SwapRemoveBoundary ==
  [][ret'.op = "swap_remove" =>
       LET b == ret'.b
           old == buf[b].length
           count == ret'.count
           after == old - count
           i == ret'.idx
       IN
       (count <= old /\ i = after - count) =>
         /\ ret'.res = "unit"
         /\ pc' = "run"
         /\ buf'[b].length = after
         /\ buf'[b].capacity = buf[b].capacity
         /\ count > 0 =>
              ret'.calls = << [fn |-> "CopyBufferSubData", rd |-> after,
                               wr |-> i, size |-> count] >>
         /\ (bound = b /\ old <= Len(mem[b])) =>
              /\ SubSeq(mem'[b], i + 1, i + count) = SubSeq(mem[b], after + 1, after + count)
              /\ \A j \in 1 .. Len(mem[b]) :
                   (j <= i \/ j > i + count) => mem'[b][j] = mem[b][j]]_vars

\* a boundary swap_remove (index 0, one byte, two bytes live) moved the
\* second byte onto the first
SwapRemoveBoundaryWitness ==
  /\ ret.op = "swap_remove" /\ ret.res = "unit"
  /\ ret.count = 1 /\ ret.idx = 0 /\ buf[ret.b].length = 1
  /\ bound = ret.b /\ Len(mem[ret.b]) >= 2
  /\ ret.calls = << [fn |-> "CopyBufferSubData", rd |-> 1, wr |-> 0, size |-> 1] >>
  /\ mem[ret.b][1] = mem[ret.b][2] /\ mem[ret.b][1] # 0

\* C18: swap_remove(index, count) with count <= length and index equal to
\* the length after shrinking issues no device copy and only decreases length
\* by count
TailRemovalNoCopy ==
  [][ret'.op = "swap_remove" =>
       LET b == ret'.b IN
       (ret'.count <= buf[b].length /\ ret'.idx = buf[b].length - ret'.count) =>
         /\ ret'.res = "unit"
         /\ pc' = "run"
         /\ ret'.calls = <<>>
         /\ mem' = mem
         /\ bound' = bound
         /\ buf'[b].length = buf[b].length - ret'.count
         /\ buf'[b].capacity = buf[b].capacity]_vars

\* a tail removal took bytes off a buffer and left some
TailRemovalWitness ==
  /\ ret.op = "swap_remove" /\ ret.res = "unit"
  /\ ret.count > 0 /\ ret.calls = <<>>
  /\ buf[ret.b].length > 0 /\ ret.idx = buf[ret.b].length

\* C19: GLArray::new configures the attributes in list order; the k-th is
\* bound with stride = the sum of all attributes' byte widths and offset = the
\* sum of the widths of the attributes before it; Int and UInt attributes go
\* through the integer-pointer call, Float attributes through the float call
\* with normalization off
AttributeLayout ==
  ret.op = "GLArray::new" =>
    \A i \in 1 .. ((Len(ret.calls) - 1) \div 2) :
      LET c == ret.calls[2 * i + 1]
          a == ret.data[i]
      IN
      /\ c.loc = glGetAttribLocation(a.name)
      /\ c.size = a.size
      /\ c.stride = AttribSum(ret.data, Len(ret.data))
      /\ c.offset = AttribSum(ret.data, i - 1)
      /\ a.unit \in {"Int", "UInt"} => c.fn = "VertexAttribIPointer"
      /\ a.unit = "Float" => c.fn = "VertexAttribPointer" /\ c.normalized = FALSE
      /\ c.type = (CASE a.unit = "Float" -> "FLOAT"
                     [] a.unit = "UInt" -> "UNSIGNED_INT"
                     [] a.unit = "Int" -> "INT")

\* C20: for a typed buffer of element size k, the byte capacity is
\* element_capacity * k, the byte length is a multiple of k after every
\* operation, and every byte offset and byte count handed down is a multiple
\* of k
TypedMultiplesOfK ==
  /\ ret.op = "new" /\ ret.res = "unit" => buf[ret.b].capacity = ret.idx * esize
  /\ \A b \in BufId : Live(b) => buf[b].length % esize = 0
  /\ ret.op \in {"push", "update", "swap_remove"} =>
       \A c \in 1 .. Len(ret.calls) :
         IF ret.calls[c].fn = "BufferSubData"
         THEN ret.calls[c].off % esize = 0 /\ ret.calls[c].size % esize = 0
         ELSE /\ ret.calls[c].rd % esize = 0
              /\ ret.calls[c].wr % esize = 0
              /\ ret.calls[c].size % esize = 0

\* C21: a Vertex Array built from a typed buffer that holds m elements
\* (byte length / sizeof(T)) starts with length m, and a draw() right after
\* construction issues one draw call over exactly the elements [0, m)
InitialLengthFromBuffer ==
  [][/\ (ret'.op = "GLArray::new" /\ ret'.res = "unit") =>
          /\ esize > 0
          /\ arr'.length * esize <= buf[ret'.b].length
          /\ buf[ret'.b].length < (arr'.length + 1) * esize
     /\ (ret.op = "GLArray::new" /\ ret.res = "unit" /\ ret'.op = "draw") =>
          /\ ret'.res = "unit"
          /\ ret'.calls = << [fn |-> "DrawArrays", mode |-> arr.mode, first |-> 0,
                              count |-> buf[ret.b].length \div esize] >>]_vars

\* an array was built over a buffer that already held an element
InitialLengthWitness ==
  /\ ret.op = "GLArray::new" /\ ret.res = "unit"
  /\ buf[ret.b].length >= esize /\ esize > 0
  /\ arr.length >= 1

\* C22: every draw call issued by draw() covers only elements inside the
\* backing buffer's live region: for the drawn range [0, n),
\* n * sizeof(T) <= byte_buffer.length <= capacity
DrawInsideLiveRegion ==
  ret.op = "draw" =>
    \A c \in 1 .. Len(ret.calls) :
      /\ ret.calls[c].first = 0
      /\ ret.calls[c].count * esize <= buf[ret.b].length
      /\ buf[ret.b].length <= buf[ret.b].capacity

\* C23: when swap_remove terminates fatally, the buffer's length and capacity
\* have the values they had before the call
SwapRemovePanicKeepsLength ==
  [][ret'.op = "swap_remove" /\ ret'.res = "panic" =>
       /\ buf'[ret'.b].length = buf[ret'.b].length
       /\ buf'[ret'.b].capacity = buf[ret'.b].capacity]_vars

\* C24: after GLArray::new returns, every attribute slot it configured reads
\* from the device buffer the array owns, whatever buffer was created or bound
\* before the call
SlotsReadOwnBuffer ==
  ret.op = "GLArray::new" /\ ret.res = "unit" =>
    \A l \in Locs :
      (slots[l].enabled /\ "buffer" \in DOMAIN slots[l]) => slots[l].buffer = arr.buffer
\* C25: with idx, count and length over the whole word range, update issues a
\* device write only when the unbounded sum idx + count is <= length, and push
\* returns true only when the unbounded sum length + count is <= capacity
UnboundedSumsGuardWrites ==
  [][LET b == ret'.b IN
     /\ (ret'.op = "update" /\ ret'.calls # <<>>) =>
          ret'.idx + ret'.count <= buf[b].length
     /\ (ret'.op = "push" /\ ret'.res = "true") =>
          buf[b].length + ret'.count <= buf[b].capacity]_vars

\* C26: every device id obtained from a generate/create call is eventually
\* deleted, and deleted once (the delete is for an id still in use), also when
\* a constructor fails part-way
EveryIdDeletedOnce ==
  /\ \A kind \in Kinds, id \in 1 .. NIds : (id \in alloc[kind]) ~> (id \notin alloc[kind])
  /\ [][ret'.op = "drop" /\ ret'.idx # 0 =>
          /\ Len(ret'.calls) = 1
          /\ ret'.calls[1].id \in alloc[handles[ret'.b].kind]]_vars

====
